---- MODULE Spec2Model ----
(***************************************************************************)
(* Model of the Playbook detail view                                       *)
(* (webapp/src/components/backstage/automation/styles.tsx, lines 54-204)   *)
(* and of the facts its end-to-end tests (lines 327-512) establish.        *)
(*                                                                         *)
(* The view is a React function component.  Its state is the pair of       *)
(* useState cells (playbook, fetchingState); its inputs are the route      *)
(* match (match.params.playbookId and the location below match.url), the   *)
(* experimental-features flag and the team store.  Every state change      *)
(* re-renders the view synchronously, and a rendered <Redirect> navigates  *)
(* in the same commit, so each action below ends with Commit.              *)
(***************************************************************************)
EXTENDS Integers, Sequences, FiniteSets, TLC

\* Bounds of the model
MaxNav == 3         \* values taken by the route parameter (mount + changes)
MaxMembers == 2     \* longest member_ids list a playbook carries
MaxSubLen == 1      \* longest location below match.url, in path segments

\* ------------------------------------------------------------------------
\* Constants of the program
\* ------------------------------------------------------------------------
FetchingStateType ==
    [loading |-> "loading", fetched |-> "fetched", notFound |-> "notfound"]

ErrorPageTypes == [PLAYBOOKS |-> "playbooks"]

\* pluginErrorUrl(type): the URL the test observes after the redirect.
pluginErrorUrl(type) == "/playbooks/error?type=" \o type

\* useState<PlaybookWithChecklist | null>(null)
NoPlaybook == [null |-> TRUE]

\* getTeam() of an identifier the store does not hold
NoTeam == [undefined |-> TRUE]

\* ------------------------------------------------------------------------
\* The environment: identifiers, server-side playbooks, the team store
\* ------------------------------------------------------------------------
KnownIds == {"pbA", "pbB"}             \* clientFetchPlaybook can succeed
UnknownIds == {"an_unknown_id"}        \* clientFetchPlaybook always fails
EmptyId == ""                          \* falsy route parameter
RouteIds == KnownIds \cup UnknownIds \cup {EmptyId}

TeamIds == {"team1", "team2"}

MemberLists == {[i \in 1..n |-> i] : n \in 0..MaxMembers}

\* The playbooks the server may answer with for identifier id.
PlaybooksOf(id) ==
    {[id |-> id, title |-> "Playbook " \o id, team_id |-> t,
      member_ids |-> m, delete_at |-> d] :
        t \in TeamIds, m \in MemberLists, d \in {0, 1}}

\* getTeam(state, teamId): team1 is in the store (a team's name is its URL
\* slug, its display_name the name shown to users), team2 is not.
getTeam(teamId) ==
    IF teamId = "team1"
    THEN [name |-> "ad-1", display_name |-> "Team One"]
    ELSE NoTeam

Segments == {"preview", "usage", "settings"}

RECURSIVE SeqsUpTo(_)
SeqsUpTo(n) ==
    IF n = 0 THEN {<<>>}
    ELSE LET shorter == SeqsUpTo(n - 1)
         IN shorter \cup {Append(s, x) : s \in {t \in shorter : Len(t) = n - 1},
                                          x \in Segments}

\* Locations below match.url the host router can be asked for.
SubPaths == SeqsUpTo(MaxSubLen)

\* ------------------------------------------------------------------------
\* State
\* ------------------------------------------------------------------------
VARIABLES
    lifecycle,      \* "unmounted" | "mounted" | "redirected" (left for the error page)
    playbookId,     \* match.params.playbookId
    subPath,        \* location below match.url, as path segments
    experimentalFeaturesEnabled,
    playbook,       \* useState cell
    fetchingState,  \* useState cell
    inflight,       \* clientFetchPlaybook calls issued and not yet resolved
    rendered,       \* what the last render returned
    fetchLog,       \* history: identifiers passed to clientFetchPlaybook, in order
    idHistory,      \* history: values the route parameter took, in order
    navTarget,      \* history: location below match.url last asked for
    raced           \* history: the route identifier changed while a fetch was in flight

vars == <<lifecycle, playbookId, subPath, experimentalFeaturesEnabled, playbook,
          fetchingState, inflight, rendered, fetchLog, idHistory, navTarget, raced>>

\* ------------------------------------------------------------------------
\* Render: the pure part of the component
\* ------------------------------------------------------------------------
PermissionsDescription_TeamFirst(pb, team) ==
    IF team # NoTeam
    THEN [accessIconClass |-> "icon-globe",
          subTitle |-> "Everyone in " \o team.name \o " can access this playbook"]
    ELSE IF Len(pb.member_ids) >= 1
    THEN [accessIconClass |-> "icon-lock-outline",
          subTitle |-> "Only you can access this playbook"]
    ELSE [accessIconClass |-> "icon-globe",
          subTitle |-> "Everyone in this team can access this playbook"]

\* subTitle / accessIconClass
PermissionsDescription(pb, team) ==
    IF Len(pb.member_ids) = 1
    THEN [accessIconClass |-> "icon-lock-outline",
          subTitle |-> "Only you can access this playbook"]
    ELSE IF Len(pb.member_ids) > 1
    THEN [accessIconClass |-> "icon-lock-outline",
          subTitle |-> ToString(Len(pb.member_ids)) \o " people can access this playbook"]
    ELSE IF team # NoTeam
    THEN [accessIconClass |-> "icon-globe",
          subTitle |-> "Everyone in " \o team.name \o " can access this playbook"]
    ELSE [accessIconClass |-> "icon-globe",
          subTitle |-> "Everyone in this team can access this playbook"]

enableRunPlaybook_Always(pb) == TRUE

enableRunPlaybook(pb) == pb.delete_at = 0

RootRedirectTarget_Preview == <<"preview">>

\* <Redirect to={`${match.url}/usage`}/>, relative to match.url
RootRedirectTarget == <<"usage">>

SwitchRoute_CatchAll(sub) ==
    IF sub = <<>> THEN "Redirect"
    ELSE IF Head(sub) = "preview" THEN "preview"
    ELSE IF Head(sub) = "usage" THEN "PlaybookUsage"
    ELSE "Redirect"

\* <Switch>: the first <Route> matching the location; the root route is
\* exact, the other two match on their first segment; nothing else matches.
SwitchRoute(sub) ==
    IF sub = <<>> THEN "Redirect"
    ELSE IF Head(sub) = "preview" THEN "preview"
    ELSE IF Head(sub) = "usage" THEN "PlaybookUsage"
    ELSE "none"

\* (!experimentalFeaturesEnabled && <PlaybookUsage/>) || <> Navbar, Switch </>
Body(flag, sub) ==
    IF ~flag THEN [navbar |-> FALSE, panel |-> "PlaybookUsage"]
    ELSE [navbar |-> TRUE, panel |-> SwitchRoute(sub)]

NullView == [kind |-> "null"]

RedirectView(url) == [kind |-> "redirect", to |-> url]

ContentView(pb, flag, sub) ==
    LET team == getTeam(pb.team_id)
        desc == PermissionsDescription(pb, team)
        body == Body(flag, sub)
    IN [kind |-> "content",
        title |-> pb.title,
        accessIconClass |-> desc.accessIconClass,
        subTitle |-> desc.subTitle,
        runDisabled |-> ~enableRunPlaybook(pb),
        navbar |-> body.navbar,
        panel |-> body.panel]

Render_NoLoadingCheck(fs, pb, flag, sub) ==
    IF fs = FetchingStateType.notFound \/ pb = NoPlaybook
    THEN RedirectView(pluginErrorUrl(ErrorPageTypes.PLAYBOOKS))
    ELSE ContentView(pb, flag, sub)

Render_PlaybookNullFirst(fs, pb, flag, sub) ==
    IF fs = FetchingStateType.notFound \/ pb = NoPlaybook
    THEN RedirectView(pluginErrorUrl(ErrorPageTypes.PLAYBOOKS))
    ELSE IF fs = FetchingStateType.loading THEN NullView
    ELSE ContentView(pb, flag, sub)

\* The component body from the two early returns on.
Render(fs, pb, flag, sub) ==
    IF fs = FetchingStateType.loading THEN NullView
    ELSE IF fs = FetchingStateType.notFound \/ pb = NoPlaybook
    THEN RedirectView(pluginErrorUrl(ErrorPageTypes.PLAYBOOKS))
    ELSE ContentView(pb, flag, sub)

\* Render and commit.  A rendered error <Redirect> replaces the location by
\* the error URL, which is outside the view's route (the test visits
\* /playbooks/playbooks/<id> and lands on /playbooks/error?type=playbooks),
\* so the view is unmounted.  A rendered root <Redirect> replaces the
\* location below match.url and the view renders again.
Commit(fs, pb, flag, sub) ==
    LET view == Render(fs, pb, flag, sub)
    IN IF view.kind = "redirect"
       THEN /\ rendered' = view
            /\ lifecycle' = "redirected"
            /\ subPath' = sub
       ELSE IF view.kind = "content" /\ view.panel = "Redirect"
       THEN /\ rendered' = Render(fs, pb, flag, RootRedirectTarget)
            /\ lifecycle' = "mounted"
            /\ subPath' = RootRedirectTarget
       ELSE /\ rendered' = view
            /\ lifecycle' = "mounted"
            /\ subPath' = sub

\* ------------------------------------------------------------------------
\* The effect
\* ------------------------------------------------------------------------
fetchData_NoGuard(id) ==
    /\ inflight' = inflight \cup {[seq |-> Len(fetchLog) + 1, id |-> id]}
    /\ fetchLog' = Append(fetchLog, id)

\* fetchData up to the await: if (playbookId) clientFetchPlaybook(playbookId)
fetchData(id) ==
    IF id # EmptyId
    THEN /\ inflight' = inflight \cup {[seq |-> Len(fetchLog) + 1, id |-> id]}
         /\ fetchLog' = Append(fetchLog, id)
    ELSE UNCHANGED <<inflight, fetchLog>>

\* ------------------------------------------------------------------------
\* Initial state: the component's useState initial values, before mounting
\* ------------------------------------------------------------------------
Init ==
    /\ lifecycle = "unmounted"
    /\ playbookId = EmptyId
    /\ subPath = <<>>
    /\ experimentalFeaturesEnabled \in BOOLEAN
    /\ playbook = NoPlaybook
    /\ fetchingState = FetchingStateType.loading
    /\ inflight = {}
    /\ rendered = NullView
    /\ fetchLog = <<>>
    /\ idHistory = <<>>
    /\ navTarget = <<>>
    /\ raced = FALSE

\* ------------------------------------------------------------------------
\* Actions
\* ------------------------------------------------------------------------
\* The host router matches the view's route: first render, then the effect.
Mount(id, sub) ==
    /\ lifecycle = "unmounted"
    /\ playbookId' = id
    /\ navTarget' = sub
    /\ idHistory' = <<id>>
    /\ fetchData(id)
    /\ Commit(fetchingState, playbook, experimentalFeaturesEnabled, sub)
    /\ UNCHANGED <<experimentalFeaturesEnabled, playbook, fetchingState, raced>>

\* The location changes while the view stays mounted (a NavLink click or a
\* host navigation).  The effect depends on [match.params.playbookId] only.
Navigate(id, sub) ==
    /\ lifecycle = "mounted"
    /\ <<id, sub>> # <<playbookId, subPath>>
    /\ playbookId' = id
    /\ navTarget' = sub
    /\ IF id # playbookId
       THEN /\ Len(idHistory) < MaxNav
            /\ idHistory' = Append(idHistory, id)
            /\ raced' = (raced \/ inflight # {})
            /\ fetchData(id)
       ELSE UNCHANGED <<idHistory, raced, inflight, fetchLog>>
    /\ Commit(fetchingState, playbook, experimentalFeaturesEnabled, sub)
    /\ UNCHANGED <<experimentalFeaturesEnabled, playbook, fetchingState>>

\* clientFetchPlaybook resolves: setPlaybook, setFetchingState(fetched).
\* State updates of a component that is no longer mounted are dropped.
FetchSucceeds(req, pb) ==
    /\ req \in inflight
    /\ req.id \in KnownIds
    /\ pb \in PlaybooksOf(req.id)
    /\ inflight' = inflight \ {req}
    /\ IF lifecycle = "mounted"
       THEN /\ playbook' = pb
            /\ fetchingState' = FetchingStateType.fetched
            /\ Commit(FetchingStateType.fetched, pb, experimentalFeaturesEnabled, subPath)
       ELSE UNCHANGED <<playbook, fetchingState, rendered, lifecycle, subPath>>
    /\ UNCHANGED <<playbookId, experimentalFeaturesEnabled, fetchLog, idHistory,
                   navTarget, raced>>

FetchFails_SetsFetched(req) ==
    /\ req \in inflight
    /\ inflight' = inflight \ {req}
    /\ IF lifecycle = "mounted"
       THEN /\ fetchingState' = FetchingStateType.fetched
            /\ Commit(FetchingStateType.fetched, playbook,
                      experimentalFeaturesEnabled, subPath)
       ELSE UNCHANGED <<fetchingState, rendered, lifecycle, subPath>>
    /\ UNCHANGED <<playbookId, experimentalFeaturesEnabled, playbook, fetchLog,
                   idHistory, navTarget, raced>>

\* clientFetchPlaybook rejects (any cause): catch { setFetchingState(notFound) }
FetchFails(req) ==
    /\ req \in inflight
    /\ inflight' = inflight \ {req}
    /\ IF lifecycle = "mounted"
       THEN /\ fetchingState' = FetchingStateType.notFound
            /\ Commit(FetchingStateType.notFound, playbook,
                      experimentalFeaturesEnabled, subPath)
       ELSE UNCHANGED <<fetchingState, rendered, lifecycle, subPath>>
    /\ UNCHANGED <<playbookId, experimentalFeaturesEnabled, playbook, fetchLog,
                   idHistory, navTarget, raced>>

\* useExperimentalFeaturesEnabled() returns a new value: the view renders again.
SetExperimentalFeatures(flag) ==
    /\ lifecycle = "mounted"
    /\ flag # experimentalFeaturesEnabled
    /\ experimentalFeaturesEnabled' = flag
    /\ Commit(fetchingState, playbook, flag, subPath)
    /\ UNCHANGED <<playbookId, playbook, fetchingState, inflight, fetchLog,
                   idHistory, navTarget, raced>>

Next ==
    \/ \E id \in RouteIds, sub \in SubPaths : Mount(id, sub)
    \/ \E id \in RouteIds, sub \in SubPaths : Navigate(id, sub)
    \/ \E req \in inflight : \E pb \in PlaybooksOf(req.id) :
          FetchSucceeds(req, pb)
    \/ \E req \in inflight : FetchFails(req)
    \/ \E flag \in BOOLEAN : SetExperimentalFeatures(flag)

Spec == Init /\ [][Next]_vars

TypeOK ==
    /\ lifecycle \in {"unmounted", "mounted", "redirected"}
    /\ playbookId \in RouteIds
    /\ subPath \in SubPaths \cup {RootRedirectTarget}
    /\ experimentalFeaturesEnabled \in BOOLEAN
    /\ fetchingState \in {"loading", "fetched", "notfound"}
    /\ Len(idHistory) <= MaxNav
    /\ Len(fetchLog) <= MaxNav
    /\ rendered.kind \in {"null", "redirect", "content"}

\* ------------------------------------------------------------------------
\* Properties
\* ------------------------------------------------------------------------
ErrorRedirect == [kind |-> "redirect", to |-> "/playbooks/error?type=playbooks"]

IsIdentifier(id) == id # ""

AllIdentifiers == \A i \in 1..Len(idHistory) : IsIdentifier(idHistory[i])

\* C1: while the fetch status is 'loading' the view renders null; whenever
\* the status is 'notfound', or the stored playbook is null and the status is
\* not 'loading', the view renders the redirect to the PLAYBOOKS error URL.
C1_LoadingRendersNullAbsentRedirects ==
    /\ fetchingState = "loading" => rendered = NullView
    /\ (fetchingState # "loading" /\ (fetchingState = "notfound" \/ playbook = NoPlaybook))
          => rendered = ErrorRedirect

C1_Witness ==
    /\ fetchingState = "notfound"
    /\ playbook # NoPlaybook
    /\ rendered = ErrorRedirect

\* C2: when the route identifier is an unknown one and every issued fetch has
\* resolved, the view's final rendered state is the redirect to the error URL
\* of type playbooks, whatever the order in which the fetches resolved.
C2_UnknownIdEndsAtErrorRedirect ==
    (lifecycle # "unmounted" /\ playbookId \in UnknownIds /\ inflight = {})
        => rendered = ErrorRedirect

C2_Witness ==
    /\ raced
    /\ playbookId \in UnknownIds
    /\ inflight = {}
    /\ playbook # NoPlaybook
    /\ rendered = ErrorRedirect

\* C3 (as stated): one clientFetchPlaybook call per value the route parameter
\* takes, the empty string included, and no other call.
C3_OneFetchPerRouteValue == fetchLog = idHistory

\* C3 (amended): one clientFetchPlaybook call per non-empty value the route
\* parameter takes, in order, none for an empty value, and no other call.
C3_OneFetchPerNonEmptyRouteValue == fetchLog = SelectSeq(idHistory, IsIdentifier)

C3_Witness ==
    /\ Len(idHistory) >= 3
    /\ idHistory[2] = EmptyId
    /\ fetchLog = <<idHistory[1], idHistory[3]>>
    /\ navTarget # <<>>

\* C4: the permissions description is decided by the member count first:
\* one member gives the lock icon and 'Only you can access this playbook',
\* N > 1 members give the lock icon and '{N} people can access this
\* playbook', no member gives the globe icon, whether the team is known or not.
C4_MemberCountDecidesFirst ==
    rendered.kind = "content" =>
        LET n == Len(playbook.member_ids)
        IN /\ n = 1 => /\ rendered.accessIconClass = "icon-lock-outline"
                       /\ rendered.subTitle = "Only you can access this playbook"
           /\ n > 1 => /\ rendered.accessIconClass = "icon-lock-outline"
                       /\ rendered.subTitle =
                              ToString(n) \o " people can access this playbook"
           /\ n = 2 => rendered.subTitle = "2 people can access this playbook"
           /\ n = 0 => rendered.accessIconClass = "icon-globe"

C4_Witness ==
    /\ rendered.kind = "content"
    /\ Len(playbook.member_ids) = 1
    /\ getTeam(playbook.team_id) # NoTeam
    /\ rendered.accessIconClass = "icon-lock-outline"

\* C5: for a public playbook (no member) of a known team the description is
\* 'Everyone in {display_name} can access this playbook'.
C5_PublicTextUsesDisplayName ==
    (/\ rendered.kind = "content"
     /\ Len(playbook.member_ids) = 0
     /\ getTeam(playbook.team_id) # NoTeam)
        => rendered.subTitle =
              "Everyone in " \o getTeam(playbook.team_id).display_name
                  \o " can access this playbook"

\* C6: whenever a fetched playbook is rendered, the run control is disabled
\* exactly when the playbook's delete_at is non-zero.
C6_RunDisabledIffDeleted ==
    rendered.kind = "content" => (rendered.runDisabled <=> playbook.delete_at # 0)

C6_Witness ==
    /\ rendered.kind = "content"
    /\ playbook.delete_at # 0
    /\ rendered.runDisabled

\* C7 (as stated): for a fetched playbook, a navigation to the root path ends
\* at the 'usage' sub-path, with the experimental flag on and with it off.
C7_RootEndsAtUsageAlways ==
    (rendered.kind = "content" /\ navTarget = <<>>) => subPath = <<"usage">>

\* C7 (amended): for a fetched playbook, a navigation to the root path shows
\* the usage panel; with the experimental flag on it ends at the 'usage'
\* sub-path, however often the root is visited.
C7_RootEndsAtUsageWhenExperimental ==
    (rendered.kind = "content" /\ navTarget = <<>>) =>
        /\ rendered.panel = "PlaybookUsage"
        /\ experimentalFeaturesEnabled => subPath = <<"usage">>

C7_Witness ==
    /\ rendered.kind = "content"
    /\ navTarget = <<>>
    /\ experimentalFeaturesEnabled
    /\ subPath = <<"usage">>
    /\ Len(idHistory) >= 2

\* C8 (as stated): with the sub-router active the location never rests at a
\* sub-path other than 'preview' or 'usage'.
C8_UnknownSubPathRedirected ==
    (rendered.kind = "content" /\ experimentalFeaturesEnabled) =>
        /\ subPath # <<>>
        /\ Head(subPath) \in {"preview", "usage"}

\* C8 (amended): with the sub-router active only the root is redirected (to
\* 'usage'); a sub-path that is neither 'preview' nor 'usage' matches no route,
\* the location stays where the navigation put it and no panel is rendered.
C8_OnlyRootRedirected ==
    (rendered.kind = "content" /\ experimentalFeaturesEnabled) =>
        /\ subPath # <<>>
        /\ (navTarget # <<>> /\ Head(navTarget) \notin {"preview", "usage"})
              => (subPath = navTarget /\ rendered.panel = "none")

C8_Witness ==
    /\ rendered.kind = "content"
    /\ experimentalFeaturesEnabled
    /\ subPath = <<"settings">>
    /\ rendered.panel = "none"

\* C9 (as stated): whenever a fetch issued by the view is in flight, the view
\* renders null, also when the fetch was issued by an identifier change that
\* came after every earlier fetch had resolved.
C9_InFlightRendersNull ==
    (lifecycle = "mounted" /\ ~raced /\ inflight # {}) => rendered = NullView

\* C9 (amended): whenever a fetch is in flight and no fetch issued by the view
\* has resolved yet, the view renders null.
C9_InFlightBeforeFirstResolutionRendersNull ==
    (inflight # {} /\ Cardinality(inflight) = Len(fetchLog)) => rendered = NullView

C9_Witness ==
    /\ lifecycle = "mounted"
    /\ Cardinality(inflight) = 2
    /\ Len(fetchLog) = 2
    /\ rendered = NullView

\* C10: after the route identifier changed while a fetch was in flight, once no
\* fetch remains in flight a rendered playbook is the one the route names.
C10_SettledPlaybookMatchesRoute ==
    (/\ raced
     /\ AllIdentifiers
     /\ lifecycle = "mounted"
     /\ inflight = {}
     /\ rendered.kind = "content")
        => playbook.id = playbookId
====
